---- MODULE Spec2Model ----
(***************************************************************************)
(* A model of NB.py: the corpus loader, the Naive Bayes trainer, the       *)
(* classifier, the model writer and the command-line driver.               *)
(*                                                                         *)
(* Text is modelled character by character: a string is a sequence of      *)
(* one-character strings, a file is a sequence of lines, a dict is a       *)
(* function whose DOMAIN is its key set.  A Python set that the code       *)
(* iterates (the class set) is carried as a sequence without repetition:   *)
(* its iteration order, which Python fixes per run and the code never      *)
(* changes.                                                                *)
(*                                                                         *)
(* math.log is modelled by its argument: the float log(n/d) is the reduced *)
(* fraction <<n, d>> with d > 0, defined only for n/d > 0 (math.log raises *)
(* ValueError otherwise).  A sum of logs is the product of the fractions,  *)
(* k * log(x) is x to the power k, and two log values compare as their     *)
(* fractions do.  Arithmetic is exact: floating-point rounding is not      *)
(* modelled.                                                               *)
(***************************************************************************)
EXTENDS Integers, Sequences, FiniteSets, TLC

VARIABLES
    pc,               \* position of the running code
    exc,              \* the exception that ended the run: its type and source line
    nread,            \* lines of the corpus file consumed by the loader loop
    documents,        \* load_preprocessed_data / train_naive_bayes: documents
    vocabulary,       \* load_preprocessed_data: vocabulary
    classes,          \* the class set, in its iteration order
    class_counts,     \* train_naive_bayes: class_counts
    bigdoc,           \* train_naive_bayes: bigdoc
    V,                \* the trained vocabulary
    logprior,         \* class -> log prior (as a fraction)
    loglikelihood,    \* <<word, class>> -> log likelihood (as a fraction)
    word_counts,      \* test_naive_bayes: the document being classified
    scores,           \* test_naive_bayes: scores
    predicted_label,  \* test_naive_bayes: the value returned
    test_docs,        \* __main__: test_docs
    correct,          \* __main__: correct
    total,            \* __main__: total
    model_file,       \* what is at the path model_file
    output_file       \* what is at the path output_file

vars == <<pc, exc, nread, documents, vocabulary, classes, class_counts, bigdoc,
          V, logprior, loglikelihood, word_counts, scores, predicted_label, test_docs,
          correct, total, model_file, output_file>>

loaderVars == <<nread, documents, vocabulary>>
trainVars == <<class_counts, bigdoc, V, logprior, loglikelihood>>
testVars == <<word_counts, scores, predicted_label>>
mainVars == <<test_docs, correct, total, model_file, output_file>>

----------------------------------------------------------------------------
(* Bounds of the model.                                                    *)

MaxTailLen == 4      \* characters after "label " in a generated corpus line
MaxLines == 2        \* corpus lines the loader loop is run on
MaxTrainDocs == 2    \* documents of a generated training set
MaxCount == 2        \* largest count in a generated document to classify
MaxTrainLines == 3   \* lines of the training corpus given to the driver
MaxTestLines == 3    \* lines of the test corpus given to the driver

----------------------------------------------------------------------------
(* Python values.                                                          *)

EmptyDict == [k \in {} |-> 0]

\* an exception, with the line of NB.py that raised it and, once it has
\* reached __main__, the line of __main__ whose call it came out of
Raise(type, line) == [type |-> type, line |-> line, call |-> 0]
From(e, call) == [e EXCEPT !.call = call]
NoExc == Raise("none", 0)

\* what is at a path: no file, or a file and its content
Absent == [exists |-> FALSE, text |-> <<>>]
File(text) == [exists |-> TRUE, text |-> text]

\* f.write(text) on a file opened for writing
Written(file, text) == [file EXCEPT !.text = @ \o text]

\* d[k] = v on a dict
DictSet(d, k, v) == [x \in DOMAIN d \cup {k} |-> IF x = k THEN v ELSE d[x]]

\* d.get(k, default)
DictGet(d, k, default) == IF k \in DOMAIN d THEN d[k] ELSE default

RECURSIVE SumOver(_, _)
\* sum(d[k] for k in S)
SumOver(d, S) ==
    IF S = {} THEN 0
    ELSE LET k == CHOOSE x \in S : TRUE IN d[k] + SumOver(d, S \ {k})

\* sum(d.values())
SumValues(d) == SumOver(d, DOMAIN d)

Range(s) == {s[i] : i \in DOMAIN s}

Abs(n) == IF n < 0 THEN 0 - n ELSE n

RECURSIVE Gcd(_, _)
Gcd(a, b) == IF b = 0 THEN a ELSE Gcd(b, a % b)

\* the float n / d (d # 0), as a reduced fraction with a positive denominator
Frac(n, d) ==
    LET g == Gcd(Abs(n), Abs(d))
        s == IF d < 0 THEN 0 - 1 ELSE 1
    IN  <<(s * n) \div g, (s * d) \div g>>

One == <<1, 1>>      \* log(1) = 0.0

\* x + y on log values
LogAdd(x, y) == Frac(x[1] * y[1], x[2] * y[2])

RECURSIVE LogTimes(_, _)
\* k * x for an int k and a log value x
LogTimes(k, x) ==
    IF k = 0 THEN One
    ELSE IF k < 0 THEN LogTimes(0 - k, <<x[2], x[1]>>)
    ELSE LogAdd(x, LogTimes(k - 1, x))

\* x < y on log values
LogLess(x, y) == x[1] * y[2] < y[1] * x[2]

----------------------------------------------------------------------------
(* str.split, str.strip and int.                                           *)

Whitespace == {" ", "\t", "\n"}

RECURSIVE SplitOn(_, _, _, _)
\* the pieces of s between the separators, empty pieces included
SplitOn(s, seps, i, cur) ==
    IF i > Len(s) THEN <<cur>>
    ELSE IF s[i] \in seps THEN <<cur>> \o SplitOn(s, seps, i + 1, <<>>)
    ELSE SplitOn(s, seps, i + 1, Append(cur, s[i]))

RECURSIVE strip(_)
\* s.strip()
strip(s) ==
    IF s = <<>> THEN s
    ELSE IF s[1] \in Whitespace THEN strip(Tail(s))
    ELSE IF s[Len(s)] \in Whitespace THEN strip(SubSeq(s, 1, Len(s) - 1))
    ELSE s

\* s.split(): the maximal runs of non-whitespace characters
split(s) == SelectSeq(SplitOn(s, Whitespace, 1, <<>>), LAMBDA t : t # <<>>)

\* s.split(':')
split_colon(s) == SplitOn(s, {":"}, 1, <<>>)

Digits == {"0", "1", "2", "3", "4", "5", "6", "7", "8", "9"}

DigitVal(ch) ==
    CASE ch = "0" -> 0 [] ch = "1" -> 1 [] ch = "2" -> 2 [] ch = "3" -> 3
      [] ch = "4" -> 4 [] ch = "5" -> 5 [] ch = "6" -> 6 [] ch = "7" -> 7
      [] ch = "8" -> 8 [] ch = "9" -> 9

RECURSIVE DigitsVal(_)
DigitsVal(s) ==
    IF s = <<>> THEN 0
    ELSE 10 * DigitsVal(SubSeq(s, 1, Len(s) - 1)) + DigitVal(s[Len(s)])

AllDigits(s) == s # <<>> /\ \A i \in DOMAIN s : s[i] \in Digits

\* whether int(s) returns: an optional sign, then one or more digits
IntOk(s) ==
    /\ s # <<>>
    /\ IF s[1] \in {"-", "+"} THEN AllDigits(Tail(s)) ELSE AllDigits(s)

\* int(s), for IntOk(s)
int(s) ==
    IF s[1] = "-" THEN 0 - DigitsVal(Tail(s))
    ELSE IF s[1] = "+" THEN DigitsVal(Tail(s))
    ELSE DigitsVal(s)

----------------------------------------------------------------------------
(* load_preprocessed_data.                                                 *)

RECURSIVE parse_pairs(_, _, _, _)
\* the loop over parts[1:]: each word:count pair goes into word_counts and
\* its word into vocabulary; a pair that does not unpack into two pieces,
\* or whose count int() rejects, raises ValueError
parse_pairs(parts, i, wc, vocab) ==
    IF i > Len(parts) THEN [exc |-> NoExc, word_counts |-> wc, vocabulary |-> vocab]
    ELSE LET pieces == split_colon(parts[i]) IN
         IF Len(pieces) # 2
         THEN [exc |-> Raise("ValueError", 24), word_counts |-> wc, vocabulary |-> vocab]
         ELSE IF ~IntOk(pieces[2])
         THEN [exc |-> Raise("ValueError", 25), word_counts |-> wc, vocabulary |-> vocab]
         ELSE parse_pairs(parts, i + 1, DictSet(wc, pieces[1], int(pieces[2])),
                          vocab \cup {pieces[1]})

\* one iteration of `for line in f`
load_line(line, docs, vocab) ==
    LET parts == split(strip(line)) IN
    IF parts = <<>>
    THEN [exc |-> NoExc, documents |-> docs, vocabulary |-> vocab]
    ELSE LET r == parse_pairs(parts, 2, EmptyDict, vocab) IN
         IF r.exc # NoExc
         THEN [exc |-> r.exc, documents |-> docs, vocabulary |-> r.vocabulary]
         ELSE [exc |-> NoExc,
               documents |-> Append(docs, [word_counts |-> r.word_counts,
                                           label |-> parts[1]]),
               vocabulary |-> r.vocabulary]

RECURSIVE load_lines(_, _, _, _)
load_lines(file, i, docs, vocab) ==
    IF i > Len(file) THEN [exc |-> NoExc, documents |-> docs, vocabulary |-> vocab]
    ELSE LET r == load_line(file[i], docs, vocab) IN
         IF r.exc # NoExc THEN r
         ELSE load_lines(file, i + 1, r.documents, r.vocabulary)

\* the whole call: open() raises when no file is at the path
load_preprocessed_data(file) ==
    IF ~file.exists
    THEN [exc |-> Raise("FileNotFoundError", 12), documents |-> <<>>, vocabulary |-> {}]
    ELSE load_lines(file.text, 1, <<>>, {})

----------------------------------------------------------------------------
(* The loader on generated corpus lines, one loop iteration per step.      *)

TailChars == {"a", ":", "1", "-", " "}

RECURSIVE StringsUpTo(_)
StringsUpTo(n) ==
    IF n = 0 THEN {<<>>}
    ELSE LET S == StringsUpTo(n - 1)
         IN  S \cup {Append(s, ch) : s \in S, ch \in TailChars}

\* blank lines, and a one-letter label followed by any short text
GenLines ==
    {<<"\n">>, <<" ", "\n">>}
      \cup {<<lab, " ">> \o t \o <<"\n">> :
                lab \in {"p", "n"}, t \in StringsUpTo(MaxTailLen)}

Unused == <<>>

InitLoad ==
    /\ pc = "load_open"
    /\ exc = NoExc
    /\ nread = 0
    /\ documents = <<>>
    /\ vocabulary = {}
    /\ classes = Unused
    /\ class_counts = Unused /\ bigdoc = Unused
    /\ V = Unused /\ logprior = Unused /\ loglikelihood = Unused
    /\ word_counts = Unused /\ scores = Unused /\ predicted_label = Unused
    /\ test_docs = Unused /\ correct = 0 /\ total = 0
    /\ model_file = Absent /\ output_file = Absent

\* open(filepath, 'r')
LoadOpen ==
    /\ pc = "load_open"
    /\ \E exists \in BOOLEAN :
         IF exists
         THEN pc' = "load_loop" /\ exc' = exc
         ELSE pc' = "raised" /\ exc' = Raise("FileNotFoundError", 12)
    /\ UNCHANGED <<loaderVars, classes, trainVars, testVars, mainVars>>

\* the body of `for line in f`, on the next line of the file
LoadLine ==
    /\ pc = "load_loop"
    /\ nread < MaxLines
    /\ \E line \in GenLines :
         LET r == load_line(line, documents, vocabulary) IN
         /\ nread' = nread + 1
         /\ documents' = r.documents
         /\ vocabulary' = r.vocabulary
         /\ exc' = r.exc
         /\ pc' = IF r.exc = NoExc THEN "load_loop" ELSE "raised"
    /\ UNCHANGED <<classes, trainVars, testVars, mainVars>>

\* end of file: return documents, vocabulary
LoadReturn ==
    /\ pc = "load_loop"
    /\ pc' = "load_returned"
    /\ UNCHANGED <<exc, loaderVars, classes, trainVars, testVars, mainVars>>

NextLoad == LoadOpen \/ LoadLine \/ LoadReturn

SpecLoad == InitLoad /\ [][NextLoad]_vars

----------------------------------------------------------------------------
(* train_naive_bayes.                                                      *)

\* count_label as a defaultdict(int) would do it: a missing key starts at 0
count_label_default(cc, label) ==
    [exc |-> NoExc, class_counts |-> DictSet(cc, label, DictGet(cc, label, 0) + 1)]

\* class_counts[label] += 1 on a plain dict: a missing key raises KeyError
count_label(cc, label) ==
    IF label \in DOMAIN cc
    THEN [exc |-> NoExc, class_counts |-> DictSet(cc, label, cc[label] + 1)]
    ELSE [exc |-> Raise("KeyError", 46), class_counts |-> cc]

RECURSIVE count_docs(_, _, _)
\* lines 44-46: the loop over the documents' labels
count_docs(docs, i, cc) ==
    IF i > Len(docs) THEN [exc |-> NoExc, class_counts |-> cc]
    ELSE LET r == count_label(cc, docs[i].label) IN
         IF r.exc # NoExc THEN r ELSE count_docs(docs, i + 1, r.class_counts)

\* lines 49-51: V is the union of the documents' words
vocabulary_of(docs) == UNION {DOMAIN docs[i].word_counts : i \in DOMAIN docs}

\* log_exc for a log that returns -inf on 0 instead of raising
log_exc_inf(n, d, line) ==
    IF d = 0 THEN Raise("ZeroDivisionError", line)
    ELSE IF Frac(n, d)[1] < 0 THEN Raise("ValueError", line)
    ELSE NoExc

\* whether log(n / d) returns: the division raises on d = 0, and math.log
\* raises on an argument that is not positive
log_exc(n, d, line) ==
    IF d = 0 THEN Raise("ZeroDivisionError", line)
    ELSE IF Frac(n, d)[1] <= 0 THEN Raise("ValueError", line)
    ELSE NoExc

\* log(n / d)
log(n, d) == Frac(n, d)

\* prior_ratio with add-one smoothing applied to the prior as well
prior_ratio_smoothed(count, N_doc) == <<count + 1, N_doc + 1>>

\* the argument of the prior's log: class_counts[c] / N_doc
prior_ratio(count, N_doc) == <<count, N_doc>>

RECURSIVE priors(_, _, _, _, _)
\* lines 54-55: logprior[c] = log(class_counts[c] / N_doc), in class order
priors(order, i, cc, N_doc, lp) ==
    IF i > Len(order) THEN [exc |-> NoExc, logprior |-> lp]
    ELSE LET q == prior_ratio(cc[order[i]], N_doc)
             e == log_exc(q[1], q[2], 55) IN
         IF e # NoExc THEN [exc |-> e, logprior |-> lp]
         ELSE priors(order, i + 1, cc, N_doc, DictSet(lp, order[i], log(q[1], q[2])))

RECURSIVE add_counts(_, _, _)
\* lines 60-61: one document's counts added into its class's table
add_counts(table, wc, words) ==
    IF words = {} THEN table
    ELSE LET w == CHOOSE x \in words : TRUE IN
         add_counts(DictSet(table, w, DictGet(table, w, 0) + wc[w]), wc, words \ {w})

RECURSIVE bigdoc_of(_, _, _)
\* lines 58-61: bigdoc[label][word] = bigdoc[label].get(word, 0) + count
bigdoc_of(docs, i, bd) ==
    IF i > Len(docs) THEN [exc |-> NoExc, bigdoc |-> bd]
    ELSE LET d == docs[i] IN
         IF DOMAIN d.word_counts # {} /\ d.label \notin DOMAIN bd
         THEN [exc |-> Raise("KeyError", 61), bigdoc |-> bd]
         ELSE IF DOMAIN d.word_counts = {} THEN bigdoc_of(docs, i + 1, bd)
         ELSE bigdoc_of(docs, i + 1,
                        DictSet(bd, d.label,
                                add_counts(bd[d.label], d.word_counts,
                                           DOMAIN d.word_counts)))

\* total_words without the smoothing term len(V)
total_words_unsmoothed(table, v) == SumValues(table)

\* line 66: total_words = sum(bigdoc[c].values()) + len(V)
total_words(table, v) == SumValues(table) + Cardinality(v)

\* line 70: count = bigdoc[c].get(word, 0) + 1
smoothed_count(table, word) == DictGet(table, word, 0) + 1

\* the first exception of the loop over V for one class, NoExc if none
class_exc(table, v) ==
    IF \E w \in v : log_exc(smoothed_count(table, w), total_words(table, v), 71) # NoExc
    THEN log_exc(smoothed_count(table, CHOOSE w \in v :
                     log_exc(smoothed_count(table, w), total_words(table, v), 71) # NoExc),
                 total_words(table, v), 71)
    ELSE NoExc

RECURSIVE likelihoods(_, _, _, _, _)
\* lines 64-71, in class order.  When a class raises, the entries it had
\* already stored depend on the iteration order of V; the table is dropped
\* with the frame, and the model keeps the entries of the earlier classes.
likelihoods(order, i, bd, v, ll) ==
    IF i > Len(order) THEN [exc |-> NoExc, loglikelihood |-> ll]
    ELSE LET c == order[i]
             e == class_exc(bd[c], v) IN
         IF e # NoExc THEN [exc |-> e, loglikelihood |-> ll]
         ELSE likelihoods(order, i + 1, bd, v,
                  [k \in DOMAIN ll \cup {<<w, c>> : w \in v} |->
                      IF k \in DOMAIN ll /\ k[2] # c THEN ll[k]
                      ELSE log(smoothed_count(bd[c], k[1]), total_words(bd[c], v))])

\* the frame of train_naive_bayes when it returns or raises
TrainFrame(e, cc, v, lp, bd, ll) ==
    [exc |-> e, class_counts |-> cc, V |-> v, logprior |-> lp, bigdoc |-> bd,
     loglikelihood |-> ll]

train_naive_bayes(docs, order) ==
    LET r1 == count_docs(docs, 1, [c \in Range(order) |-> 0]) IN
    IF r1.exc # NoExc
    THEN TrainFrame(r1.exc, r1.class_counts, {}, EmptyDict, EmptyDict, EmptyDict)
    ELSE
    LET cc == r1.class_counts
        v == vocabulary_of(docs)
        r3 == priors(order, 1, cc, Len(docs), EmptyDict) IN
    IF r3.exc # NoExc
    THEN TrainFrame(r3.exc, cc, v, r3.logprior, EmptyDict, EmptyDict)
    ELSE
    LET r4 == bigdoc_of(docs, 1, [c \in Range(order) |-> EmptyDict]) IN
    IF r4.exc # NoExc
    THEN TrainFrame(r4.exc, cc, v, r3.logprior, r4.bigdoc, EmptyDict)
    ELSE
    LET r5 == likelihoods(order, 1, r4.bigdoc, v, EmptyDict) IN
    TrainFrame(r5.exc, cc, v, r3.logprior, r4.bigdoc, r5.loglikelihood)

----------------------------------------------------------------------------
(* test_naive_bayes.                                                       *)

\* in_vocabulary without the membership test
in_vocabulary_any(word, v) == TRUE

\* line 85: if word in V
in_vocabulary(word, v) == word \in v

RECURSIVE score_of(_, _, _, _, _, _)
\* lines 84-89 for one class: the prior plus count * loglikelihood.get(.., 0)
\* for each word of the document that is in V
score_of(c, start, wc, words, v, ll) ==
    IF words = {} THEN start
    ELSE LET w == CHOOSE x \in words : TRUE
             next == IF in_vocabulary(w, v)
                     THEN LogAdd(start, LogTimes(wc[w], DictGet(ll, <<w, c>>, One)))
                     ELSE start
         IN  score_of(c, next, wc, words \ {w}, v, ll)

\* replaces_best with >= for >: the last of several equal maxima wins
replaces_best_or_equal(best_score, score) == ~LogLess(score, best_score)

\* the comparison max() makes: a later item replaces the best only if greater
replaces_best(best_score, score) == LogLess(best_score, score)

RECURSIVE max_item(_, _, _, _)
\* line 92: max(scores.items(), key=score), items in class order
max_item(order, sc, i, best) ==
    IF i > Len(order) THEN best
    ELSE max_item(order, sc, i + 1,
                  IF replaces_best(sc[best], sc[order[i]]) THEN order[i] ELSE best)

test_naive_bayes(wc, v, lp, ll, order) ==
    IF \E i \in DOMAIN order : order[i] \notin DOMAIN lp
    THEN [exc |-> Raise("KeyError", 81), label |-> <<>>, scores |-> EmptyDict]
    ELSE LET sc == [c \in Range(order) |-> score_of(c, lp[c], wc, DOMAIN wc, v, ll)] IN
         IF order = <<>>
         THEN [exc |-> Raise("ValueError", 92), label |-> <<>>, scores |-> sc]
         ELSE [exc |-> NoExc, label |-> max_item(order, sc, 2, order[1]), scores |-> sc]

----------------------------------------------------------------------------
(* Generated inputs of the trainer and the classifier.                     *)

pos == <<"p", "o", "s">>
neg == <<"n", "e", "g">>
neu == <<"n", "e", "u">>

Words == {<<"a">>, <<"b">>}

\* the sequences over S of length at most n
SeqsUpTo(S, n) == UNION {[1..k -> S] : k \in 0..n}

\* the iteration orders of the subsets of S
Orders(S) ==
    {s \in SeqsUpTo(S, Cardinality(S)) :
        \A i, j \in DOMAIN s : i # j => s[i] # s[j]}

\* the iteration orders of the non-empty subsets of S
ClassOrders(S) == Orders(S) \ {<<>>}

\* the dicts from some of the words to counts
GenWordCounts(counts) == UNION {[S -> counts] : S \in SUBSET Words}

\* counts int() can return: negative, zero, positive
TrainCounts == {0 - 2, 0, 1}

GenDocs == [word_counts : GenWordCounts(TrainCounts), label : {pos, neg, neu}]

InitTrain ==
    /\ pc = "train_call"
    /\ exc = NoExc
    /\ nread = 0
    /\ documents \in SeqsUpTo(GenDocs, MaxTrainDocs)
    /\ vocabulary = {}
    /\ classes \in ClassOrders({pos, neg})
    /\ class_counts = EmptyDict /\ bigdoc = EmptyDict
    /\ V = {} /\ logprior = EmptyDict /\ loglikelihood = EmptyDict
    /\ word_counts = Unused /\ scores = Unused /\ predicted_label = Unused
    /\ test_docs = Unused /\ correct = 0 /\ total = 0
    /\ model_file = Absent /\ output_file = Absent

\* the call train_naive_bayes(documents, classes), line 127 of __main__
Train ==
    /\ pc = "train_call"
    /\ LET r == train_naive_bayes(documents, classes) IN
         /\ exc' = From(r.exc, 127)
         /\ class_counts' = r.class_counts
         /\ bigdoc' = r.bigdoc
         /\ V' = r.V
         /\ logprior' = r.logprior
         /\ loglikelihood' = r.loglikelihood
         /\ pc' = IF r.exc = NoExc THEN "train_returned" ELSE "raised"
    /\ UNCHANGED <<loaderVars, classes, testVars, mainVars>>

NextTrain == Train

SpecTrain == InitTrain /\ [][NextTrain]_vars

----------------------------------------------------------------------------
(* The classifier on generated models: any priors, any likelihood table.   *)

\* log values a table may hold: log(1/2), log(1/4)
LogVals == {<<1, 2>>, <<1, 4>>}

\* the tables holding an entry for every class and some of the words
GenTables(order) ==
    UNION {[S \X Range(order) -> LogVals] : S \in SUBSET Words}

InitTest ==
    /\ pc = "test_call"
    /\ exc = NoExc
    /\ nread = 0
    /\ documents = <<>>
    /\ vocabulary = {}
    /\ classes \in ClassOrders({pos, neg, neu})
    /\ class_counts = EmptyDict /\ bigdoc = EmptyDict
    /\ V \in SUBSET Words
    /\ logprior \in [Range(classes) -> LogVals]
    /\ loglikelihood \in GenTables(classes)
    /\ word_counts \in GenWordCounts(0..MaxCount)
    /\ scores = EmptyDict
    /\ predicted_label = <<>>
    /\ test_docs = Unused /\ correct = 0 /\ total = 0
    /\ model_file = Absent /\ output_file = Absent

\* the call test_naive_bayes(word_counts, V, logprior, loglikelihood, classes)
Test ==
    /\ pc = "test_call"
    /\ LET r == test_naive_bayes(word_counts, V, logprior, loglikelihood, classes) IN
         /\ exc' = r.exc
         /\ scores' = r.scores
         /\ predicted_label' = r.label
         /\ pc' = IF r.exc = NoExc THEN "test_returned" ELSE "raised"
    /\ UNCHANGED <<loaderVars, classes, trainVars, word_counts, mainVars>>

NextTest == Test

SpecTest == InitTest /\ [][NextTest]_vars

----------------------------------------------------------------------------
(* save_model.                                                             *)

\* the code point of a character of the model's words
Code(ch) ==
    CASE ch = "-" -> 45 [] ch = "1" -> 49 [] ch = "2" -> 50 [] ch = ":" -> 58
      [] ch = "a" -> 97 [] ch = "b" -> 98 [] OTHER -> 0

RECURSIVE StrLess(_, _)
\* s < t on strings
StrLess(s, t) ==
    IF t = <<>> THEN FALSE
    ELSE IF s = <<>> THEN TRUE
    ELSE IF s[1] # t[1] THEN Code(s[1]) < Code(t[1])
    ELSE StrLess(Tail(s), Tail(t))

RECURSIVE sorted(_)
\* sorted(S) for a set of strings
sorted(S) ==
    IF S = {} THEN <<>>
    ELSE LET m == CHOOSE x \in S : \A y \in S \ {x} : StrLess(x, y)
         IN  <<m>> \o sorted(S \ {m})

\* save_model stopping after the priors: the likelihood section is missing
save_model_truncated(v, lp, ll, order, vorder) ==
    <<  <<"### Vocabulary ###">>  >>
      \o [i \in 1..Cardinality(v) |-> <<sorted(v)[i]>>]
      \o << <<>>, <<"### Priors ###">> >>
      \o [i \in 1..Len(order) |-> <<order[i], lp[order[i]]>>]

\* the lines save_model writes, a line being the tuple of its fields; the
\* likelihood lines follow the table's insertion order: by class, and within
\* a class in the iteration order of V (vorder)
save_model(v, lp, ll, order, vorder) ==
    <<  <<"### Vocabulary ###">>  >>
      \o [i \in 1..Cardinality(v) |-> <<sorted(v)[i]>>]
      \o << <<>>, <<"### Priors ###">> >>
      \o [i \in 1..Len(order) |-> <<order[i], lp[order[i]]>>]
      \o << <<>>, <<"### Likelihoods ###">> >>
      \o [k \in 1..(Len(order) * Len(vorder)) |->
            LET c == order[((k - 1) \div Len(vorder)) + 1]
                w == vorder[((k - 1) % Len(vorder)) + 1]
            IN  <<w, c, ll[<<w, c>>]>>]

----------------------------------------------------------------------------
(* __main__.                                                               *)

RECURSIVE str_of_nat(_)
\* str(n) for n >= 0
str_of_nat(n) ==
    LET d == <<"0", "1", "2", "3", "4", "5", "6", "7", "8", "9">>[(n % 10) + 1]
    IN  IF n < 10 THEN <<d>> ELSE Append(str_of_nat(n \div 10), d)

\* accuracy_hundredths without the factor 100: the fraction, not the percentage
accuracy_fraction(c, t) ==
    LET q == (c * 100) \div t
        r == (c * 100) % t
    IN  IF 2 * r > t \/ (2 * r = t /\ q % 2 = 1) THEN q + 1 ELSE q

\* (correct / total) * 100 rounded to hundredths of a percent as the .2f
\* format rounds (to nearest, ties to even), in hundredths
accuracy_hundredths(c, t) ==
    LET q == (c * 10000) \div t
        r == (c * 10000) % t
    IN  IF 2 * r > t \/ (2 * r = t /\ q % 2 = 1) THEN q + 1 ELSE q

\* f"\nAccuracy: {accuracy:.2f}%"
accuracy_text(c, t) ==
    LET h == accuracy_hundredths(c, t)
        f == h % 100
    IN  <<"\n", "A", "c", "c", "u", "r", "a", "c", "y", ":", " ">>
          \o str_of_nat(h \div 100) \o <<".">>
          \o (IF f < 10 THEN <<"0">> ELSE <<>>) \o str_of_nat(f) \o <<"%">>

\* f"{predicted_label}\n"
prediction_text(label) == label \o <<"\n">>

\* corpus lines the driver is run on: two well-formed documents, a blank
\* line, a label outside the class set, a pair without a colon, a negative
\* count
CorpusLines ==
    { pos \o <<" ", "a", ":", "2", " ", "b", ":", "1", "\n">>,
      neg \o <<" ", "b", ":", "2", "\n">>,
      <<"\n">>,
      neu \o <<" ", "a", ":", "1", "\n">>,
      pos \o <<" ", "a", "\n">>,
      neg \o <<" ", "a", ":", "-", "2", "\n">> }

\* what may be at a corpus path: no file, or a file of a few lines
CorpusFiles(n) == {Absent} \cup {File(t) : t \in SeqsUpTo(CorpusLines, n)}

Init ==
    /\ pc = "main"
    /\ exc = NoExc
    /\ nread = 0
    /\ documents = <<>>
    /\ vocabulary = {}
    /\ classes \in {<<pos, neg>>, <<neg, pos>>}
    /\ class_counts = EmptyDict /\ bigdoc = EmptyDict
    /\ V = {} /\ logprior = EmptyDict /\ loglikelihood = EmptyDict
    /\ word_counts = EmptyDict /\ scores = EmptyDict /\ predicted_label = <<>>
    /\ test_docs = <<>> /\ correct = 0 /\ total = 0
    /\ model_file = Absent /\ output_file = Absent

\* line 123: train_docs, vocab = load_preprocessed_data(train_file)
LoadTrain ==
    /\ pc = "main"
    /\ \E file \in CorpusFiles(MaxTrainLines) :
         LET r == load_preprocessed_data(file) IN
         /\ exc' = From(r.exc, 123)
         /\ documents' = r.documents
         /\ vocabulary' = r.vocabulary
         /\ pc' = IF r.exc = NoExc THEN "train_call" ELSE "raised"
    /\ UNCHANGED <<nread, classes, trainVars, testVars, mainVars>>

\* line 130: save_model(V, logprior, loglikelihood, model_file); open() may
\* fail, and then nothing is created
SaveModel ==
    /\ pc = "train_returned"
    /\ \E opened \in BOOLEAN :
         IF opened
         THEN /\ \E vorder \in {o \in Orders(V) : Len(o) = Cardinality(V)} :
                   model_file' = File(save_model(V, logprior, loglikelihood,
                                                 classes, vorder))
              /\ pc' = "load_test"
              /\ exc' = exc
         ELSE /\ model_file' = model_file
              /\ pc' = "raised"
              /\ exc' = From(Raise("PermissionError", 96), 130)
    /\ UNCHANGED <<loaderVars, classes, trainVars, testVars, test_docs, correct,
                   total, output_file>>

\* lines 133-135: test_docs, _ = load_preprocessed_data(test_file)
LoadTest ==
    /\ pc = "load_test"
    /\ \E file \in CorpusFiles(MaxTestLines) :
         LET r == load_preprocessed_data(file) IN
         /\ exc' = From(r.exc, 133)
         /\ test_docs' = r.documents
         /\ pc' = IF r.exc = NoExc THEN "open_output" ELSE "raised"
    /\ correct' = 0
    /\ total' = 0
    /\ UNCHANGED <<loaderVars, classes, trainVars, testVars, model_file, output_file>>

\* line 137: open(output_file, 'w') creates the file empty, or fails
OpenOutput ==
    /\ pc = "open_output"
    /\ \E opened \in BOOLEAN :
         IF opened
         THEN output_file' = File(<<>>) /\ pc' = "classify" /\ exc' = exc
         ELSE /\ output_file' = output_file
              /\ pc' = "raised"
              /\ exc' = From(Raise("PermissionError", 137), 137)
    /\ UNCHANGED <<loaderVars, classes, trainVars, testVars, test_docs, correct,
                   total, model_file>>

\* lines 138-145: one iteration of the loop over test_docs
ClassifyNext ==
    /\ pc = "classify"
    /\ total < Len(test_docs)
    /\ LET d == test_docs[total + 1]
           r == test_naive_bayes(d.word_counts, V, logprior, loglikelihood, classes)
       IN  /\ word_counts' = d.word_counts
           /\ scores' = r.scores
           /\ predicted_label' = r.label
           /\ IF r.exc # NoExc
              THEN /\ exc' = From(r.exc, 139)
                   /\ pc' = "raised"
                   /\ UNCHANGED <<output_file, total, correct>>
              ELSE /\ output_file' = Written(output_file, prediction_text(r.label))
                   /\ total' = total + 1
                   /\ correct' = IF r.label = d.label THEN correct + 1 ELSE correct
                   /\ UNCHANGED <<pc, exc>>
    /\ UNCHANGED <<loaderVars, classes, trainVars, test_docs, model_file>>

\* lines 148-149, after the loop: the division raises on an empty test set
WriteAccuracy ==
    /\ pc = "classify"
    /\ total = Len(test_docs)
    /\ IF total = 0
       THEN /\ exc' = From(Raise("ZeroDivisionError", 148), 148)
            /\ pc' = "raised"
            /\ UNCHANGED output_file
       ELSE /\ output_file' = Written(output_file, accuracy_text(correct, total))
            /\ pc' = "done"
            /\ UNCHANGED exc
    /\ UNCHANGED <<loaderVars, classes, trainVars, testVars, test_docs, correct,
                   total, model_file>>

Next ==
    \/ LoadTrain
    \/ Train
    \/ SaveModel
    \/ LoadTest
    \/ OpenOutput
    \/ ClassifyNext
    \/ WriteAccuracy

Spec == Init /\ [][Next]_vars

----------------------------------------------------------------------------
(* Properties of train_naive_bayes, checked under SpecTrain.               *)

RECURSIVE ProbSum(_, _, _)
\* the sum of exp(ll[(w, c)]) over the words w of S, as a fraction
ProbSum(ll, c, S) ==
    IF S = {} THEN <<0, 1>>
    ELSE LET w == CHOOSE x \in S : TRUE
             x == ll[<<w, c>>]
             r == ProbSum(ll, c, S \ {w})
         IN  Frac(x[1] * r[2] + r[1] * x[2], x[2] * r[2])

RECURSIVE SmoothedSum(_, _)
\* the sum of table.get(w, 0) + 1 over the words w of S
SmoothedSum(table, S) ==
    IF S = {} THEN 0
    ELSE LET w == CHOOSE x \in S : TRUE
         IN  DictGet(table, w, 0) + 1 + SmoothedSum(table, S \ {w})

RECURSIVE PriorSum(_, _)
\* the sum of exp(lp[c]) over the classes c of S, as a fraction
PriorSum(lp, S) ==
    IF S = {} THEN <<0, 1>>
    ELSE LET c == CHOOSE x \in S : TRUE
             x == lp[c]
             r == PriorSum(lp, S \ {c})
         IN  Frac(x[1] * r[2] + r[1] * x[2], x[2] * r[2])

\* denom(c) = (sum of the counts accumulated for c) + |V|
Denom(c) == SumValues(bigdoc[c]) + Cardinality(V)

\* the number of documents labelled c
DocsOf(c) == Cardinality({i \in DOMAIN documents : documents[i].label = c})

LabelsKnown == \A i \in DOMAIN documents : documents[i].label \in Range(classes)

\* C1 as claimed: whenever training returns, for every class c the smoothed
\* counts sum to denom(c) and the smoothed probabilities of c sum to 1 over V.
C1_Original ==
    pc = "train_returned" =>
        \A c \in Range(classes) :
            /\ SmoothedSum(bigdoc[c], V) = Denom(c)
            /\ ProbSum(loglikelihood, c, V) = <<1, 1>>

\* C1, amended: whenever training returns, for every class c the smoothed
\* counts sum to denom(c), every entry is log((count + 1) / denom(c)), and the
\* smoothed probabilities of c sum to 1 over V when V is not empty; over an
\* empty V the sum is the empty sum, 0.
C1_SmoothedSumToOne ==
    pc = "train_returned" =>
        \A c \in Range(classes) :
            /\ SmoothedSum(bigdoc[c], V) = Denom(c)
            /\ \A w \in V :
                 /\ <<w, c>> \in DOMAIN loglikelihood
                 /\ loglikelihood[<<w, c>>] = Frac(DictGet(bigdoc[c], w, 0) + 1, Denom(c))
            /\ ProbSum(loglikelihood, c, V) = IF V = {} THEN <<0, 1>> ELSE <<1, 1>>

\* training returned a model over two words and two classes, one class
\* never having seen one of the words
C1_Witness ==
    /\ pc = "train_returned"
    /\ Cardinality(V) = 2
    /\ Len(classes) = 2
    /\ \E c \in Range(classes) : \E w \in V :
         /\ w \notin DOMAIN bigdoc[c]
         /\ DOMAIN bigdoc[c] # {}

\* C2 as claimed: after training returns, every (w, c) with w in V and c a
\* class has an entry, the log of a ratio whose numerator and denominator are
\* both at least 1.
C2_Original ==
    pc = "train_returned" =>
        \A c \in Range(classes) : \A w \in V :
            /\ <<w, c>> \in DOMAIN loglikelihood
            /\ DictGet(bigdoc[c], w, 0) + 1 >= 1
            /\ Denom(c) >= 1
            /\ loglikelihood[<<w, c>>] = Frac(DictGet(bigdoc[c], w, 0) + 1, Denom(c))

\* C3: once the priors are computed, the training set is not empty, the
\* per-class document counts are the numbers of documents of each class and
\* sum to the number of documents,
\* logprior[c] is log(count(c) / total) and the priors sum to 1.
C3_PriorsSumToOne ==
    (pc = "train_returned" \/ (pc = "raised" /\ exc.line \in {61, 71})) =>
        /\ documents # <<>>
        /\ DOMAIN class_counts = Range(classes)
        /\ DOMAIN logprior = Range(classes)
        /\ \A c \in Range(classes) :
             /\ class_counts[c] = DocsOf(c)
             /\ logprior[c] = Frac(class_counts[c], Len(documents))
        /\ SumOver(class_counts, Range(classes)) = Len(documents)
        /\ PriorSum(logprior, Range(classes)) = <<1, 1>>

\* training returned priors for two classes, each with documents
C3_Witness ==
    /\ pc = "train_returned"
    /\ Len(classes) = 2
    /\ Len(documents) >= 2
    /\ \A c \in Range(classes) : class_counts[c] >= 1 /\ logprior[c][2] > 1

\* C6 as claimed: a document whose label is not in the class set raises no
\* error; training creates a counter bucket for the label and goes on.
C6_Original ==
    (pc # "train_call" /\ ~LabelsKnown) =>
        /\ exc.type = "none"
        /\ \A i \in DOMAIN documents : documents[i].label \in DOMAIN bigdoc

\* C6, amended: a document whose label is not in the class set makes training
\* raise KeyError where it counts the documents (line 46): no bucket is
\* created for the label, bigdoc is never built and no model is returned.
C6_UnknownLabelRaises ==
    (pc # "train_call" /\ ~LabelsKnown) =>
        /\ pc = "raised"
        /\ exc.type = "KeyError" /\ exc.line = 46
        /\ DOMAIN class_counts = Range(classes)
        /\ DOMAIN bigdoc = {}
        /\ DOMAIN logprior = {} /\ DOMAIN loglikelihood = {}

\* training was called with a document labelled outside the class set, after
\* a document of a known class
C6_Witness ==
    /\ pc = "raised"
    /\ Len(documents) >= 2
    /\ documents[1].label \in Range(classes)
    /\ documents[2].label \notin Range(classes)
    /\ DOMAIN documents[2].word_counts # {}

EmptyClass(c) == c \in Range(classes) /\ DocsOf(c) = 0

\* C7 as claimed: with a class that has no training document (the training
\* set not empty), training returns a model in which that class's log prior
\* is ln(0) = -inf.
C7_Original ==
    (pc # "train_call" /\ documents # <<>> /\ LabelsKnown
        /\ \E c \in Range(classes) : EmptyClass(c)) =>
        /\ pc = "train_returned"
        /\ \A c \in Range(classes) :
             EmptyClass(c) => c \in DOMAIN logprior /\ logprior[c][1] = 0

\* C7, amended: with a class that has no training document (the training
\* set not empty, every label in the class set), training aborts: math.log
\* raises ValueError on 0 where the priors are computed (line 55), before
\* bigdoc and the likelihoods are computed, and no model is returned.
C7_EmptyClassRaises ==
    (pc # "train_call" /\ documents # <<>> /\ LabelsKnown
        /\ \E c \in Range(classes) : EmptyClass(c)) =>
        /\ pc = "raised"
        /\ exc.type = "ValueError" /\ exc.line = 55
        /\ \A c \in Range(classes) : EmptyClass(c) => c \notin DOMAIN logprior
        /\ DOMAIN bigdoc = {} /\ DOMAIN loglikelihood = {}

\* training was called on documents of one class only, the other class of
\* the class set having none
C7_Witness ==
    /\ pc = "raised"
    /\ Len(classes) = 2
    /\ Len(documents) >= 2
    /\ LabelsKnown
    /\ \E c \in Range(classes) : EmptyClass(c)
    /\ \E i \in DOMAIN documents : DOMAIN documents[i].word_counts # {}

----------------------------------------------------------------------------
(* Properties of test_naive_bayes, checked under SpecTest.                 *)

RECURSIVE ClaimedScore(_, _)
\* logprior[c] plus, for the words w of S that are in V, count * the entry
\* of (w, c); a word of V without an entry adds 0, as .get's default does
ClaimedScore(c, S) ==
    IF S = {} THEN logprior[c]
    ELSE LET w == CHOOSE x \in S : TRUE
             rest == ClaimedScore(c, S \ {w})
         IN  IF w \in V /\ <<w, c>> \in DOMAIN loglikelihood
             THEN LogAdd(rest, LogTimes(word_counts[w], loglikelihood[<<w, c>>]))
             ELSE rest

\* the position of class c in the class set's iteration order
IndexOf(c) == CHOOSE i \in DOMAIN classes : classes[i] = c

\* c is the first class, in iteration order, at which f is maximal
FirstMax(c, f) ==
    /\ c \in Range(classes)
    /\ \A d \in Range(classes) : ~LogLess(f[c], f[d])
    /\ \A j \in DOMAIN classes : j < IndexOf(c) => LogLess(f[classes[j]], f[c])

\* C4: the class returned has a maximal score, score[c] being logprior[c]
\* plus count * loglikelihood[(word, c)] over the document's words that are
\* in V, and among several classes of equal maximal score it is the first in
\* the class set's iteration order.
C4_ArgmaxFirstInOrder ==
    pc = "test_returned" =>
        /\ DOMAIN scores = Range(classes)
        /\ \A c \in Range(classes) : scores[c] = ClaimedScore(c, DOMAIN word_counts)
        /\ FirstMax(predicted_label, scores)

\* a document with a word of V counted twice was classified, two classes
\* tie for the maximal score, a class before them scores less, and the
\* scores are not the priors
C4_Witness ==
    /\ pc = "test_returned"
    /\ Len(classes) = 3
    /\ \E w \in DOMAIN word_counts : w \in V /\ word_counts[w] = 2
    /\ scores[classes[2]] = scores[classes[3]]
    /\ LogLess(scores[classes[1]], scores[classes[2]])
    /\ predicted_label = classes[2]
    /\ logprior[classes[2]] # logprior[classes[3]]

\* C5: a document none of whose words is in V (the empty document included)
\* is given the class of highest logprior, the first such class in iteration
\* order, whatever its counts and whatever the likelihood table holds.
C5_UnknownWordsGivePrior ==
    (pc = "test_returned" /\ DOMAIN word_counts \cap V = {}) =>
        FirstMax(predicted_label, logprior)

\* a document of one word, not in V but with entries in the table that
\* would have reversed the order of the priors, was classified
C5_Witness ==
    /\ pc = "test_returned"
    /\ V # {}
    /\ \E w \in DOMAIN word_counts :
         /\ DOMAIN word_counts = {w}
         /\ w \notin V
         /\ word_counts[w] = 2
         /\ \A c \in Range(classes) : <<w, c>> \in DOMAIN loglikelihood
         /\ \E c \in Range(classes) :
              /\ c # predicted_label
              /\ LogLess(LogAdd(logprior[predicted_label],
                                LogTimes(2, loglikelihood[<<w, predicted_label>>])),
                         LogAdd(logprior[c], LogTimes(2, loglikelihood[<<w, c>>])))

----------------------------------------------------------------------------
(* Properties of __main__, checked under Spec.                             *)

\* the exceptions open() raises
IOErrors == {"FileNotFoundError", "PermissionError"}

\* the run ended on a file that could not be opened
IOFailure == pc = "raised" /\ exc.type \in IOErrors

\* the model file holds the three sections, complete
ModelFileComplete ==
    /\ model_file.exists
    /\ LET t == model_file.text
           nv == Cardinality(V)
           nc == Len(classes)
       IN  /\ Len(t) = 5 + nv + nc + nv * nc
           /\ t[1] = <<"### Vocabulary ###">>
           /\ {t[i][1] : i \in 2..(1 + nv)} = V
           /\ t[2 + nv] = <<>>
           /\ t[3 + nv] = <<"### Priors ###">>
           /\ \A i \in 1..nc : t[3 + nv + i] = <<classes[i], logprior[classes[i]]>>
           /\ t[4 + nv + nc] = <<>>
           /\ t[5 + nv + nc] = <<"### Likelihoods ###">>
           /\ {t[i] : i \in (6 + nv + nc)..Len(t)}
                = {<<k[1], k[2], loglikelihood[k]>> : k \in DOMAIN loglikelihood}

\* C8 as claimed: when a file I/O failure aborts the run, neither the model
\* file nor the predictions file has been created.
C8_Original ==
    IOFailure => ~model_file.exists /\ ~output_file.exists

\* C8, amended: when a file I/O failure aborts the run, the predictions file
\* has not been created; the model file has not been created if the failure
\* is in loading the training corpus or in opening the model file, and has
\* been written completely if it is in loading the test corpus or in opening
\* the predictions file.
C8_IOFailureOutputs ==
    IOFailure =>
        /\ ~output_file.exists
        /\ exc.call \in {123, 130, 133, 137}
        /\ exc.call \in {123, 130} => ~model_file.exists
        /\ exc.call \in {133, 137} => ModelFileComplete

\* the test corpus was missing, after a model over two words was trained
C8_Witness ==
    /\ IOFailure
    /\ exc.type = "FileNotFoundError" /\ exc.call = 133
    /\ Cardinality(V) = 2
    /\ model_file.exists

\* the lines of a text: the pieces between its newlines
LinesOf(text) == SplitOn(text, {"\n"}, 1, <<>>)

\* the class test_naive_bayes gives the i-th test document under the model
PredictionFor(i) ==
    test_naive_bayes(test_docs[i].word_counts, V, logprior, loglikelihood, classes).label

\* the number of test documents whose prediction is their label
CorrectCount ==
    Cardinality({i \in DOMAIN test_docs : PredictionFor(i) = test_docs[i].label})

AccuracyPrefix == <<"A", "c", "c", "u", "r", "a", "c", "y", ":", " ">>

\* the pieces of s between its dots
split_on_dot(s) == SplitOn(s, {"."}, 1, <<>>)

\* line is `Accuracy: XX.XX%`, XX.XX being k / n * 100 to the nearest
\* hundredth
IsAccuracyLine(line, k, n) ==
    /\ Len(line) > Len(AccuracyPrefix) + 1
    /\ SubSeq(line, 1, Len(AccuracyPrefix)) = AccuracyPrefix
    /\ line[Len(line)] = "%"
    /\ LET num == split_on_dot(SubSeq(line, Len(AccuracyPrefix) + 1, Len(line) - 1))
       IN  /\ Len(num) = 2
           /\ AllDigits(num[1]) /\ AllDigits(num[2]) /\ Len(num[2]) = 2
           /\ (num[1][1] = "0" => Len(num[1]) = 1)
           /\ LET h == 100 * DigitsVal(num[1]) + DigitsVal(num[2])
              IN  2 * Abs(h * n - 10000 * k) <= n

\* C9 as claimed: for n > 0 test documents the predictions file is n lines,
\* the i-th the prediction for the i-th document, followed directly by the
\* line `Accuracy: XX.XX%`, the last line.
C9_Original ==
    pc = "done" =>
        LET lines == LinesOf(output_file.text)
            n == Len(test_docs)
        IN  /\ Len(lines) = n + 1
            /\ \A i \in 1..n : lines[i] = PredictionFor(i)
            /\ IsAccuracyLine(lines[n + 1], CorrectCount, n)

\* C9, amended: for n > 0 test documents the predictions file is n lines,
\* the i-th the prediction for the i-th document, then one empty line, then
\* the line `Accuracy: XX.XX%`, the last line and without a newline after
\* it, XX.XX being (predictions equal to the true label / n) * 100.
C9_PredictionsThenBlankThenAccuracy ==
    pc = "done" =>
        LET lines == LinesOf(output_file.text)
            n == Len(test_docs)
        IN  /\ n > 0
            /\ Len(lines) = n + 2
            /\ \A i \in 1..n : lines[i] = PredictionFor(i)
            /\ lines[n + 1] = <<>>
            /\ IsAccuracyLine(lines[n + 2], CorrectCount, n)

\* three test documents were classified, not all to the same class, and
\* some but not all of them correctly
C9_Witness ==
    /\ pc = "done"
    /\ Len(test_docs) = 3
    /\ correct \in {1, 2}
    /\ \E i, j \in DOMAIN test_docs : PredictionFor(i) # PredictionFor(j)

----------------------------------------------------------------------------
(* Properties of load_preprocessed_data, checked under SpecLoad.           *)

\* C10 as claimed: the loader returns only documents whose counts are
\* non-negative integers, a pair whose count is not one being a fatal parse
\* error.
C10_Original ==
    pc = "load_returned" =>
        \A i \in DOMAIN documents :
            \A w \in DOMAIN documents[i].word_counts :
                documents[i].word_counts[w] >= 0

====
